---------------------------- MODULE Spec2Model ----------------------------
(***************************************************************************)
(* Model of app.py, the Portfolio Stress-Test dashboard script.            *)
(*                                                                         *)
(* The script runs top to bottom: the Sunita tab reads three widgets,      *)
(* runs a 30-year drawdown loop and renders three metrics; the Shekhar tab *)
(* reads two sliders, computes a solvency ratio and a 4-year goal gap and  *)
(* renders three metrics.                                                  *)
(*                                                                         *)
(* Number representation.  Money is in whole rupees.  The script's float   *)
(* products are modelled by MulDiv, the floor of the exact product; over   *)
(* the 78 Sunita inputs the modelled corpus stays within 37 rupees of the  *)
(* float corpus while the corpus is never closer than 766 rupees to the    *)
(* zero crossing, so every branch is taken as the script takes it.         *)
(* inflation is held in tenths of a percent (4.0 .. 10.0 is 40 .. 100).    *)
(* A quotient (the solvency ratio) is an exact reduced fraction <<n, d>>.  *)
(* depletion_age, a str-or-int in the script, is a record with a kind.     *)
(***************************************************************************)
EXTENDS Integers, Sequences, FiniteSets

VARIABLES
    pc,
    inflation, rent_strategy, medical_shock,
    year, current_corpus, depletion_age, status_color, simulation_data,
    annual_expense, portfolio_income, total_inflow, drawdown,
    monthly_gap, m2_delta,
    market_crash, house_inflation,
    equity_val, gold_val, total_liquid_assets, solvency_ratio,
    surplus, delta_msg, goal_delta

sunita_vars ==
    << inflation, rent_strategy, medical_shock,
       year, current_corpus, depletion_age, status_color, simulation_data,
       annual_expense, portfolio_income, total_inflow, drawdown >>

sunita_metrics ==
    << monthly_gap, m2_delta >>

shekhar_inputs ==
    << market_crash, house_inflation >>

shekhar_logic ==
    << equity_val, gold_val, total_liquid_assets, solvency_ratio, surplus >>

shekhar_metrics ==
    << delta_msg, goal_delta >>

vars ==
    << pc, sunita_vars, sunita_metrics, shekhar_inputs, shekhar_logic,
       shekhar_metrics >>

-----------------------------------------------------------------------------
(* Arithmetic helpers *)

Max(a, b) ==
    IF a >= b THEN a ELSE b

\* floor(x * n / d) without forming x * n, which would leave 32 bits
MulDiv(x, n, d) ==
    (x \div d) * n + ((x % d) * n) \div d

RECURSIVE GCD(_, _)
GCD(a, b) ==
    IF b = 0 THEN a ELSE GCD(b, a % b)

\* n / d as an exact fraction in lowest terms
Div(n, d) ==
    LET g == GCD(n, d) IN << n \div g, d \div g >>

RatLT(a, b) ==
    a[1] * b[2] < b[1] * a[2]

\* a >= k for a fraction a and an integer k
RatGE(a, k) ==
    a[1] >= k * a[2]

\* format spec ".0f": nearest integer, ties to even (n >= 0, d > 0)
RoundHalfEven(n, d) ==
    LET q == n \div d
        r == n % d
    IN  IF 2 * r < d THEN q
        ELSE IF 2 * r > d THEN q + 1
        ELSE IF q % 2 = 0 THEN q ELSE q + 1

-----------------------------------------------------------------------------
(* Sunita: widgets *)

InflationValues ==
    { 40 + 5 * k : k \in 0..12 }

PayingRent ==
    "Paying Rent (10k/mo)"

FamilyHome ==
    "Move to Family Home (0)"

RentStrategies ==
    { PayingRent, FamilyHome }

MedicalShocks ==
    { 0, 300000, 500000 }

(* Sunita: logic engine *)

corpus == 2500000

pension == 300000

base_living_expense == 480000

rent_expense_monthly_mut(rs) ==
    IF rs = PayingRent THEN 10000 ELSE 0

rent_expense(rs) ==
    IF rs = PayingRent THEN 120000 ELSE 0

total_expense_y1(rs) ==
    base_living_expense + rent_expense(rs)

\* the string "95+"
NotDepleted ==
    [kind |-> "str", age |-> 0]

IntAge(a) ==
    [kind |-> "int", age |-> a]

Years_short_mut ==
    1..29

\* range(1, 31)
Years ==
    1..30

InflationFactor_deflate_mut(infl) ==
    1000 - infl

\* 1 + inflation/100, in thousandths
InflationFactor(infl) ==
    1000 + infl

\* t1 * ((1 + inflation/100) ** (y - 1))
RECURSIVE Inflate(_, _, _)
Inflate(t1, infl, y) ==
    IF y = 1 THEN t1
    ELSE MulDiv(Inflate(t1, infl, y - 1), InflationFactor(infl), 1000)

AnnualExpense(rs, infl, shock, y) ==
    Inflate(total_expense_y1(rs), infl, y)
        + (IF y = 5 THEN shock ELSE 0)

PortfolioIncome(cur) ==
    Max(0, MulDiv(cur, 78, 1000))

TotalInflow_nopension_mut(income) ==
    income

TotalInflow(income) ==
    pension + income

Drawdown(expense, inflow) ==
    Max(0, expense - inflow)

Deplete_noclamp_mut(s, cur, a) ==
    IF cur <= 0
    THEN [current_corpus |-> cur,
          depletion_age  |-> IF s.depletion_age = NotDepleted
                             THEN IntAge(a) ELSE s.depletion_age,
          status_color   |-> IF s.depletion_age = NotDepleted
                             THEN "red" ELSE s.status_color]
    ELSE [current_corpus |-> cur,
          depletion_age  |-> s.depletion_age,
          status_color   |-> s.status_color]

Deplete_nocolor_mut(s, cur, a) ==
    IF cur <= 0
    THEN [current_corpus |-> 0,
          depletion_age  |-> IF s.depletion_age = NotDepleted
                             THEN IntAge(a) ELSE s.depletion_age,
          status_color   |-> s.status_color]
    ELSE [current_corpus |-> cur,
          depletion_age  |-> s.depletion_age,
          status_color   |-> s.status_color]

\* the branch "if current_corpus <= 0" on the corpus after the drawdown
Deplete(s, cur, a) ==
    IF cur <= 0
    THEN [current_corpus |-> 0,
          depletion_age  |-> IF s.depletion_age = NotDepleted
                             THEN IntAge(a) ELSE s.depletion_age,
          status_color   |-> IF s.depletion_age = NotDepleted
                             THEN "red" ELSE s.status_color]
    ELSE [current_corpus |-> cur,
          depletion_age  |-> s.depletion_age,
          status_color   |-> s.status_color]

\* one iteration of the loop from the loop state s, for year y
SimulateYear(s, rs, infl, shock, y) ==
    LET expense == AnnualExpense(rs, infl, shock, y)
        income  == PortfolioIncome(s.current_corpus)
        inflow  == TotalInflow(income)
        draw    == Drawdown(expense, inflow)
    IN  Deplete(s, s.current_corpus - draw, 65 + y)

LoopStart ==
    [current_corpus |-> corpus,
     depletion_age  |-> NotDepleted,
     status_color   |-> "green"]

\* the loop state after the first n years
RECURSIVE Simulate(_, _, _, _)
Simulate(rs, infl, shock, n) ==
    IF n = 0 THEN LoopStart
    ELSE SimulateYear(Simulate(rs, infl, shock, n - 1), rs, infl, shock, n)

\* "Critical" if status_color=="red" and depletion_age < 80 else "Safe";
\* "TypeError" is what comparing the string "95+" with 80 raises
DepletionDelta(color, dep) ==
    IF color = "red"
    THEN IF dep.kind = "str" THEN "TypeError"
         ELSE IF dep.age < 80 THEN "Critical" ELSE "Safe"
    ELSE "Safe"

MonthlyGap(rs) ==
    RoundHalfEven(total_expense_y1(rs) - pension, 12)

-----------------------------------------------------------------------------
(* Shekhar: widgets *)

MarketCrashValues ==
    { 5 * k : k \in 0..10 }

HouseInflationValues ==
    0..20

(* Shekhar: logic engine *)

EquityVal_halfscale_mut(mc) ==
    (16000000 * (50 - mc)) \div 50

EquityVal(mc) ==
    (16000000 * (100 - mc)) \div 100

arbitrage_val == 10000000

bond_val == 10000000

GoldVal_ge_mut(mc) ==
    (4000000 * (IF mc >= 15 THEN 110 ELSE 100)) \div 100

GoldVal_late_mut(mc) ==
    (4000000 * (IF mc > 20 THEN 110 ELSE 100)) \div 100

GoldVal(mc) ==
    (4000000 * (IF mc > 15 THEN 110 ELSE 100)) \div 100

TotalLiquidAssets(mc) ==
    EquityVal(mc) + arbitrage_val + bond_val + GoldVal(mc)

annual_debt_obligation == 16600000

SolvencyRatio(mc) ==
    Div(TotalLiquidAssets(mc), annual_debt_obligation)

\* 30000000 * ((1.05 + house_inflation/100) ** 4)
HouseCost(hi) ==
    (3 * (105 + hi) * (105 + hi) * (105 + hi) * (105 + hi)) \div 10

\* total_liquid_assets * (1.09 ** 4)
ProjectedWealth(assets) ==
    MulDiv(MulDiv(MulDiv(MulDiv(assets, 109, 100), 109, 100), 109, 100),
           109, 100)

Surplus(mc, hi) ==
    ProjectedWealth(TotalLiquidAssets(mc)) - HouseCost(hi)

DeltaMsg(ratio) ==
    IF RatGE(ratio, 2) THEN "SAFE (>2.0x)" ELSE "RISK (<2.0x)"

GoalDelta(s) ==
    IF s > 0 THEN "Funded" ELSE "Gap"

-----------------------------------------------------------------------------
(* The script *)

Init ==
    /\ pc = "loop"
    /\ inflation \in InflationValues
    /\ rent_strategy \in RentStrategies
    /\ medical_shock \in MedicalShocks
    /\ year = 1
    /\ current_corpus = LoopStart.current_corpus
    /\ depletion_age = LoopStart.depletion_age
    /\ status_color = LoopStart.status_color
    /\ simulation_data = << >>
    /\ annual_expense = 0
    /\ portfolio_income = 0
    /\ total_inflow = 0
    /\ drawdown = 0
    /\ monthly_gap = 0
    /\ m2_delta = "unset"
    /\ market_crash = 0
    /\ house_inflation = 0
    /\ equity_val = 0
    /\ gold_val = 0
    /\ total_liquid_assets = 0
    /\ solvency_ratio = << 0, 1 >>
    /\ surplus = 0
    /\ delta_msg = "unset"
    /\ goal_delta = "unset"

\* one pass through the body of "for year in range(1, 31)"
LoopBody ==
    /\ pc = "loop"
    /\ year \in Years
    /\ LET s == [current_corpus |-> current_corpus,
                 depletion_age  |-> depletion_age,
                 status_color   |-> status_color]
           n == SimulateYear(s, rent_strategy, inflation, medical_shock, year)
       IN  /\ annual_expense' =
                  AnnualExpense(rent_strategy, inflation, medical_shock, year)
           /\ portfolio_income' = PortfolioIncome(current_corpus)
           /\ total_inflow' = TotalInflow(portfolio_income')
           /\ drawdown' = Drawdown(annual_expense', total_inflow')
           /\ current_corpus' = n.current_corpus
           /\ depletion_age' = n.depletion_age
           /\ status_color' = n.status_color
           /\ simulation_data' =
                  Append(simulation_data,
                         [Age |-> 65 + year, Corpus |-> n.current_corpus])
    /\ year' = year + 1
    /\ pc' = IF year + 1 \in Years THEN "loop" ELSE "sunita_metrics"
    /\ UNCHANGED << inflation, rent_strategy, medical_shock >>
    /\ UNCHANGED << sunita_metrics, shekhar_inputs, shekhar_logic,
                    shekhar_metrics >>

\* the three st.metric calls of the Sunita tab
SunitaMetrics ==
    /\ pc = "sunita_metrics"
    /\ monthly_gap' = MonthlyGap(rent_strategy)
    /\ m2_delta' = DepletionDelta(status_color, depletion_age)
    /\ pc' = "shekhar_inputs"
    /\ UNCHANGED << sunita_vars, shekhar_inputs, shekhar_logic,
                    shekhar_metrics >>

\* the two sliders of the Shekhar tab
ShekharInputs ==
    /\ pc = "shekhar_inputs"
    /\ market_crash' \in MarketCrashValues
    /\ house_inflation' \in HouseInflationValues
    /\ pc' = "shekhar_logic"
    /\ UNCHANGED << sunita_vars, sunita_metrics, shekhar_logic,
                    shekhar_metrics >>

ShekharLogic ==
    /\ pc = "shekhar_logic"
    /\ equity_val' = EquityVal(market_crash)
    /\ gold_val' = GoldVal(market_crash)
    /\ total_liquid_assets' = TotalLiquidAssets(market_crash)
    /\ solvency_ratio' = SolvencyRatio(market_crash)
    /\ surplus' = Surplus(market_crash, house_inflation)
    /\ pc' = "shekhar_metrics"
    /\ UNCHANGED << sunita_vars, sunita_metrics, shekhar_inputs,
                    shekhar_metrics >>

\* the three st.metric calls of the Shekhar tab
ShekharMetrics ==
    /\ pc = "shekhar_metrics"
    /\ delta_msg' = DeltaMsg(solvency_ratio)
    /\ goal_delta' = GoalDelta(surplus)
    /\ pc' = "done"
    /\ UNCHANGED << sunita_vars, sunita_metrics, shekhar_inputs,
                    shekhar_logic >>

Next ==
    \/ LoopBody
    \/ SunitaMetrics
    \/ ShekharInputs
    \/ ShekharLogic
    \/ ShekharMetrics

Spec ==
    Init /\ [][Next]_vars

-----------------------------------------------------------------------------
(* Properties *)

LoopDone ==
    pc # "loop"

SunitaRendered ==
    pc \in { "shekhar_inputs", "shekhar_logic", "shekhar_metrics", "done" }

ShekharComputed ==
    pc \in { "shekhar_metrics", "done" }

SeriesLen ==
    Len(simulation_data)

DepletionMatchesSeries ==
    /\ \A k \in 1..SeriesLen : simulation_data[k].Corpus >= 0
    /\ \A j, k \in 1..SeriesLen :
           (j < k /\ simulation_data[j].Corpus = 0)
               => simulation_data[k].Corpus = 0
    /\ depletion_age.kind = "int" =>
           \E k \in 1..SeriesLen :
               /\ simulation_data[k].Corpus = 0
               /\ depletion_age.age = 65 + k
               /\ simulation_data[k].Age = depletion_age.age
               /\ \A j \in 1..(k - 1) : simulation_data[j].Corpus > 0
    /\ depletion_age = NotDepleted <=>
           \A k \in 1..SeriesLen : simulation_data[k].Corpus # 0

\* C1: every corpus in the series is >= 0; once a year's corpus is 0 every
\* later year's corpus is 0; depletion_age is the age 65 + k of the first
\* year k whose corpus is 0, is still "95+" exactly when no year's corpus
\* is 0, and once it holds an age no step changes it.
C1_MonotonicDepletion ==
    /\ []DepletionMatchesSeries
    /\ [][depletion_age # NotDepleted => depletion_age' = depletion_age]_vars

C1_Witness ==
    /\ LoopDone
    /\ SeriesLen = 30
    /\ simulation_data[1].Corpus > 0
    /\ simulation_data[29].Corpus = 0
    /\ simulation_data[30].Corpus = 0
    /\ depletion_age.kind = "int"
    /\ depletion_age.age < 94

\* C2: while the loop runs the k-th point has age 65 + k, and once the loop
\* is over the series has exactly 30 points with strictly increasing ages
\* from 66 to 95, whenever the corpus was depleted.
C2_ThirtyPoints ==
    /\ \A k \in 1..SeriesLen : simulation_data[k].Age = 65 + k
    /\ LoopDone =>
           /\ SeriesLen = 30
           /\ simulation_data[1].Age = 66
           /\ simulation_data[30].Age = 95
           /\ \A k \in 1..29 :
                  simulation_data[k].Age < simulation_data[k + 1].Age

C2_Witness ==
    /\ pc = "sunita_metrics"
    /\ SeriesLen = 30
    /\ simulation_data[30].Age = 95
    /\ depletion_age = IntAge(72)

NoLaterThan(d2, d1) ==
    d1.kind = "int" => (d2.kind = "int" /\ d2.age <= d1.age)

\* C3: when the loop has finished, a run of the same rent strategy and
\* medical shock under any higher inflation value depletes in the same or
\* an earlier year, and if neither run depletes its year-30 corpus is
\* strictly lower.
C3_InflationMonotone ==
    pc = "sunita_metrics" =>
        \A i2 \in InflationValues :
            i2 > inflation =>
                LET o == Simulate(rent_strategy, i2, medical_shock, 30)
                IN  /\ NoLaterThan(o.depletion_age, depletion_age)
                    /\ (depletion_age = NotDepleted
                            /\ o.depletion_age = NotDepleted)
                           => o.current_corpus < current_corpus

C3_Witness ==
    /\ pc = "sunita_metrics"
    /\ inflation = 40
    /\ rent_strategy = FamilyHome
    /\ medical_shock = 0
    /\ depletion_age = IntAge(79)
    /\ Simulate(rent_strategy, 100, medical_shock, 30).depletion_age
           = IntAge(75)

\* C4: the solvency ratio is strictly decreasing in the crash percentage
\* over 0..15, gold is 4,000,000 there (also at exactly 15), and the ratio
\* at 16, where gold is 4,400,000, is strictly greater than the ratio at 15.
C4_DecreasingThenJump ==
    (ShekharComputed /\ market_crash <= 15) =>
        /\ gold_val = 4000000
        /\ \A c1, c2 \in 0..15 :
               c1 < c2 => RatLT(SolvencyRatio(c2), SolvencyRatio(c1))
        /\ \A c2 \in (market_crash + 1)..15 :
               RatLT(SolvencyRatio(c2), solvency_ratio)
        /\ market_crash = 15 =>
               /\ GoldVal(16) = 4400000
               /\ RatLT(solvency_ratio, SolvencyRatio(16))

C4_Witness ==
    /\ ShekharComputed
    /\ market_crash = 15
    /\ gold_val = 4000000
    /\ total_liquid_assets = 37600000
    /\ TotalLiquidAssets(16) = 37840000

\* C5 as claimed: the solvency ratio computed for a crash of 20, the first
\* slider value above 15, is greater than the ratio for a crash of 15.
C5_JumpAtTwenty ==
    (ShekharComputed /\ market_crash = 20) =>
        RatLT(SolvencyRatio(15), solvency_ratio)

\* C5 as amended: 20 is the first slider value above 15 and gold steps up
\* to 4,400,000 there, but the solvency ratio computed for a crash of 20 is
\* less than the ratio for a crash of 15.
C5_GoldStepsRatioFalls ==
    /\ \A c \in MarketCrashValues : c > 15 => c >= 20
    /\ (ShekharComputed /\ market_crash = 20) =>
           /\ gold_val = 4400000
           /\ GoldVal(15) = 4000000
           /\ RatLT(solvency_ratio, SolvencyRatio(15))

C5_Witness ==
    /\ ShekharComputed
    /\ market_crash = 20
    /\ gold_val = 4400000
    /\ total_liquid_assets = 37200000
    /\ TotalLiquidAssets(15) = 37600000

\* C6 as claimed: at a crash of 50 the equity bucket is worth 0.
C6_EquityWipedOut ==
    (ShekharComputed /\ market_crash = 50) => equity_val = 0

\* C6 as amended: at a crash of 50 the equity bucket is halved to
\* 8,000,000, and the liquid assets are equity, arbitrage, bonds and gold.
C6_EquityHalved ==
    (ShekharComputed /\ market_crash = 50) =>
        /\ equity_val = 8000000
        /\ total_liquid_assets =
               equity_val + arbitrage_val + bond_val + gold_val

C6_Witness ==
    /\ ShekharComputed
    /\ market_crash = 50
    /\ equity_val = 8000000
    /\ total_liquid_assets = 32400000

\* the year just simulated was entered with a corpus of 0
EnteredEmpty ==
    /\ SeriesLen >= 2
    /\ simulation_data[SeriesLen - 1].Corpus = 0

\* C7 as claimed: a year entered with corpus 0 has portfolio income 0, a
\* drawdown equal to the full annual expense, and records corpus 0.
C7_FullExpenseDrawdown ==
    EnteredEmpty =>
        /\ portfolio_income = 0
        /\ drawdown = annual_expense
        /\ simulation_data[SeriesLen].Corpus = 0

\* C7 as amended: a year entered with corpus 0 has portfolio income 0, a
\* drawdown equal to the annual expense less the pension, and records
\* corpus 0.
C7_ExpenseLessPensionDrawdown ==
    EnteredEmpty =>
        /\ portfolio_income = 0
        /\ drawdown = annual_expense - pension
        /\ simulation_data[SeriesLen].Corpus = 0
        /\ current_corpus = 0

C7_Witness ==
    /\ EnteredEmpty
    /\ pc = "loop"
    /\ portfolio_income = 0
    /\ annual_expense > pension
    /\ drawdown = annual_expense - pension

\* C8: the displayed monthly gap is 25000 when paying rent and 15000 in the
\* family home, whatever the inflation rate and the medical shock.
C8_MonthlyGapByStrategy ==
    SunitaRendered =>
        monthly_gap = IF rent_strategy = PayingRent THEN 25000 ELSE 15000

C8_Witness ==
    /\ SunitaRendered
    /\ rent_strategy = PayingRent
    /\ inflation = 60
    /\ medical_shock = 0
    /\ monthly_gap = 25000

\* C9: a badge reading "SAFE (>2.0x)" means liquid assets strictly above
\* twice the debt obligation, and one reading "RISK (<2.0x)" means liquid
\* assets strictly below it.
C9_BadgeTruthful ==
    /\ delta_msg = "SAFE (>2.0x)" =>
           total_liquid_assets > 2 * annual_debt_obligation
    /\ delta_msg = "RISK (<2.0x)" =>
           total_liquid_assets < 2 * annual_debt_obligation

\* C10: status_color is "red" exactly when depletion_age has been
\* overwritten with an age, so picking the "Critical"/"Safe" label never
\* compares the string "95+" with 80.
C10_RedIffAge ==
    /\ status_color = "red" <=> depletion_age.kind = "int"
    /\ status_color \in { "red", "green" }
    /\ m2_delta # "TypeError"

C10_Witness ==
    /\ SunitaRendered
    /\ status_color = "red"
    /\ depletion_age.kind = "int"
    /\ depletion_age.age < 80
    /\ m2_delta = "Critical"

=============================================================================
